---- MODULE Spec2Model ----
(***************************************************************************)
(* AsyncSerialReader of the Linky TIC integration (src/__init__.py): the   *)
(* read_serial() task, the stop_serial_read() callback, the line parser    *)
(* and the two queries is_connected() and get_values().                    *)
(*                                                                         *)
(* A byte string is a sequence of integers 0..255.  A Python value that    *)
(* may be None, bytes or str is a record [t, v]: t is its type and v its   *)
(* bytes (code points for a str).  The task read_serial() is a coroutine:  *)
(* it is interleaved with callbacks only at its awaits, so one action is   *)
(* the code between two awaits.                                            *)
(***************************************************************************)
EXTENDS Integers, Sequences, FiniteSets, TLC

VARIABLES
    std_mode,     \* self._std_mode
    reader,       \* self._reader: "None" or "open"
    writer,       \* self._writer: "None" or "open"
    first_line,   \* self._first_line
    values,       \* self._values: a function from str tags to payloads
    pc,           \* where the task read_serial() is suspended
    exc,          \* the exception that ended the task ("" while none has)
    log,          \* history: the lines of this connection handed to parse_line, with their outcome
    stoppedOpen,  \* history: stop_serial_read() has run with a writer present
    stoppedDisc,  \* history: stop_serial_read() has run with no reader (Disconnected)
    sinceReadError, \* history: "down" from a failed read to the next open, "awaiting"
                  \* from that open to its first line, "none" otherwise
    sstate,       \* history: the SessionState the events so far lead to
    nconn,        \* history: how many times the transport was opened (up to MaxConn)
    closes,       \* history: the calls of close() on the transport of this connection
    stops,        \* history: the calls of stop_serial_read() since the last open or
                  \* failure (up to MaxStops)
    sent          \* history: the tag, timestamp and value a line was built from

vars == <<std_mode, reader, writer, first_line, values, pc, exc, log,
          stoppedOpen, stoppedDisc, sinceReadError, sstate, nconn, closes, stops,
          sent>>

----------------------------------------------------------------------------
(* Protocol constants of const.py *)

MODE_STANDARD_FIELD_SEPARATOR == 9

MODE_HISTORIC_FIELD_SEPARATOR == 32

LINE_END == <<13, 10>>

FRAME_END == <<13, 3, 2, 10>>

(* Bounds of the model *)

MaxLog == 3

MaxLineLen == 5

MaxConn == 2

\* the calls of stop_serial_read() that are counted
MaxStops == 2

MaxFieldLen == 2

----------------------------------------------------------------------------
(* Python values *)

None == [t |-> "None", v |-> <<>>]

Bytes(b) == [t |-> "bytes", v |-> b]

Str(b) == [t |-> "str", v |-> b]

Truthy(x) == x.t # "None" /\ x.v # <<>>

Range(s) == {s[i] : i \in DOMAIN s}

RECURSIVE SumBytes(_)
SumBytes(s) == IF s = <<>> THEN 0 ELSE s[1] + SumBytes(Tail(s))

\* bytes.decode("ascii") succeeds iff every byte is below 0x80
IsAscii(b) == \A i \in DOMAIN b : b[i] < 128

\* bytes.rstrip(chars): drops every trailing byte that occurs in chars
RECURSIVE rstrip(_, _)
rstrip(line, chars) ==
    IF line # <<>> /\ line[Len(line)] \in Range(chars)
    THEN rstrip(SubSeq(line, 1, Len(line) - 1), chars)
    ELSE line

\* bytes.split(sep) for a one-byte separator: never an empty list
RECURSIVE split(_, _)
split(line, sep) ==
    IF \E i \in DOMAIN line : line[i] = sep
    THEN LET i == CHOOSE k \in DOMAIN line :
                      line[k] = sep /\ \A j \in 1..(k - 1) : line[j] # sep
         IN  <<SubSeq(line, 1, i - 1)>> \o split(SubSeq(line, i + 1, Len(line)), sep)
    ELSE <<line>>

----------------------------------------------------------------------------
(* Exceptions: [type, args]; args is <<>> but for InvalidChecksum *)

NoException == [type |-> "", args |-> <<>>]

Raise(type) == [type |-> type, args |-> <<>>]

\* InvalidChecksum.__init__: decodes tag, timestamp and value before it stores
\* the numbers; timestamp.decode on None is an AttributeError
InvalidChecksum(tag, timestamp, value, s1, s1_truncated, computed, expected) ==
    IF ~IsAscii(tag) THEN Raise("UnicodeDecodeError")
    ELSE IF timestamp = None THEN Raise("AttributeError")
    ELSE IF ~IsAscii(timestamp.v) THEN Raise("UnicodeDecodeError")
    ELSE IF ~IsAscii(value) THEN Raise("UnicodeDecodeError")
    ELSE [type |-> "InvalidChecksum",
          args |-> <<Str(tag), Str(timestamp.v), Str(value), s1, s1_truncated,
                     computed, expected>>]

\* Frame with the separator appended in historic mode too
Frame_trailing_sep_in_historic(std, tag, timestamp, value) ==
    LET sep == IF std THEN <<MODE_STANDARD_FIELD_SEPARATOR>>
                      ELSE <<MODE_HISTORIC_FIELD_SEPARATOR>>
    IN  IF timestamp = None
        THEN tag \o sep \o value \o sep
        ELSE tag \o sep \o timestamp.v \o sep \o value \o sep

\* the frame validate_checksum rebuilds
Frame(std, tag, timestamp, value) ==
    IF std
    THEN LET sep == <<MODE_STANDARD_FIELD_SEPARATOR>>
         IN  IF timestamp = None
             THEN tag \o sep \o value \o sep
             ELSE tag \o sep \o timestamp.v \o sep \o value \o sep
    ELSE tag \o <<MODE_HISTORIC_FIELD_SEPARATOR>> \o value

\* validate_checksum that keeps the 7 low bits of the sum
validate_checksum_mask_7_bits(std, tag, timestamp, value, checksum) ==
    LET s1 == SumBytes(Frame(std, tag, timestamp, value))
        truncated == s1 % 128
        computed_checksum == truncated + 32
    IN  IF Len(checksum) # 1 THEN Raise("TypeError")
        ELSE IF computed_checksum # checksum[1]
        THEN InvalidChecksum(tag, timestamp, value, s1, truncated,
                             computed_checksum, checksum)
        ELSE NoException

\* validate_checksum: the exception it raises, NoException when it returns
validate_checksum(std, tag, timestamp, value, checksum) ==
    LET s1 == SumBytes(Frame(std, tag, timestamp, value))
        truncated == s1 % 64              \* s1 & 0x3F
        computed_checksum == truncated + 32   \* + 0x20
    IN  IF Len(checksum) # 1 THEN Raise("TypeError")   \* ord() of a non-character
        ELSE IF computed_checksum # checksum[1]
        THEN InvalidChecksum(tag, timestamp, value, s1, truncated,
                             computed_checksum, checksum)
        ELSE NoException

----------------------------------------------------------------------------
(* parse_line: the new _first_line and _values, and what happened:         *)
(*   kind  "skipped" | "fieldcount" | "checksum" | "stored" | "raised"     *)
(*   exc   the exception logged (kind "checksum") or propagated ("raised") *)
(*   valid the checksum was validated (line 209 reached)                   *)

Outcome(kind, e, valid) == [kind |-> kind, exc |-> e, valid |-> valid]

ParseResult(fl, vals, out) == [first_line |-> fl, values |-> vals, out |-> out]

\* SetItem that keeps the payload a tag already has
SetItem_keeps_existing(vals, key, payload) ==
    [k \in (DOMAIN vals) \cup {key} |-> IF k \in DOMAIN vals THEN vals[k] ELSE payload]

\* self._values[tag] = payload
SetItem(vals, key, payload) ==
    [k \in (DOMAIN vals) \cup {key} |-> IF k = key THEN payload ELSE vals[k]]

\* lines 210-217: decode and store
Store(vals, tag, timestamp, field_value) ==
    IF ~IsAscii(field_value)
    THEN ParseResult(FALSE, vals, Outcome("raised", Raise("UnicodeDecodeError"), TRUE))
    ELSE IF Truthy(timestamp) /\ ~IsAscii(timestamp.v)
    THEN ParseResult(FALSE, vals, Outcome("raised", Raise("UnicodeDecodeError"), TRUE))
    ELSE IF ~IsAscii(tag)
    THEN ParseResult(FALSE, vals, Outcome("raised", Raise("UnicodeDecodeError"), TRUE))
    ELSE LET payload == [value |-> Str(field_value),
                         timestamp |-> IF Truthy(timestamp)
                                       THEN Str(timestamp.v) ELSE timestamp]
         IN  ParseResult(FALSE, SetItem(vals, Str(tag), payload),
                         Outcome("stored", NoException, TRUE))

\* lines 202-217: validate the checksum, then store
ValidateAndStore(std, vals, tag, timestamp, field_value, checksum) ==
    LET e == validate_checksum(std, tag, timestamp, field_value, checksum)
    IN  IF e.type = "InvalidChecksum"
        THEN ParseResult(FALSE, vals, Outcome("checksum", e, FALSE))
        ELSE IF e # NoException
        THEN ParseResult(FALSE, vals, Outcome("raised", e, FALSE))
        ELSE Store(vals, tag, timestamp, field_value)

\* field_count_error that lets an exception out of parse_line instead
field_count_error_raises(vals) ==
    ParseResult(FALSE, vals, Outcome("raised", Raise("ValueError"), FALSE))

\* lines 184-186 and 199-201: the error is logged and parse_line returns
field_count_error(vals) ==
    ParseResult(FALSE, vals, Outcome("fieldcount", NoException, FALSE))

\* lines 173-186: the fields of a standard line
parse_standard(vals, line) ==
    LET fields == split(line, MODE_STANDARD_FIELD_SEPARATOR)
    IN  IF Len(fields) = 4
        THEN ValidateAndStore(TRUE, vals, fields[1], Bytes(fields[2]),
                              fields[3], fields[4])
        ELSE IF Len(fields) = 3
        THEN ValidateAndStore(TRUE, vals, fields[1], None, fields[2], fields[3])
        ELSE field_count_error(vals)

\* parse_historic that takes the fourth field as the checksum
parse_historic_fourth_field(vals, line) ==
    LET fields == split(line, MODE_HISTORIC_FIELD_SEPARATOR)
    IN  IF Len(fields) = 3
        THEN ValidateAndStore(FALSE, vals, fields[1], None, fields[2], fields[3])
        ELSE IF Len(fields) = 4
        THEN ValidateAndStore(FALSE, vals, fields[1], None, fields[2], fields[4])
        ELSE field_count_error(vals)

\* lines 188-201: the fields of a historic line
parse_historic(vals, line) ==
    LET fields == split(line, MODE_HISTORIC_FIELD_SEPARATOR)
    IN  IF Len(fields) = 3
        THEN ValidateAndStore(FALSE, vals, fields[1], None, fields[2], fields[3])
        ELSE IF Len(fields) = 4
        THEN ValidateAndStore(FALSE, vals, fields[1], None, fields[2],
                              <<MODE_HISTORIC_FIELD_SEPARATOR>>)
        ELSE field_count_error(vals)

parse_line(std, fl, vals, line0) ==
    IF fl
    THEN ParseResult(FALSE, vals, Outcome("skipped", NoException, FALSE))
    ELSE
    LET line == rstrip(rstrip(line0, LINE_END), FRAME_END)
    IN  IF std THEN parse_standard(vals, line) ELSE parse_historic(vals, line)

----------------------------------------------------------------------------
(* Queries *)

\* is_connected that looks at the reader alone
is_connected_reader_only == reader # "None"

\* is_connected(): self._reader and self._writer, as a truth value
is_connected == reader # "None" /\ writer # "None"

\* `self.is_connected` without a call, as get_values tests it: a bound
\* method, which is always true
is_connected_attr == TRUE

NonePair == <<None, None>>

get_values(tag) ==
    IF ~is_connected_attr THEN NonePair
    ELSE IF tag \in DOMAIN values
         THEN <<values[tag].value, values[tag].timestamp>>
         ELSE NonePair     \* KeyError

----------------------------------------------------------------------------
(* Inputs *)

\* lines the meter sends, good and bad, per mode
StandardLines ==
    { <<65, 9, 84, 9, 66, 9, 82>>,    \* A T B, checksum R: valid, 4 fields
      <<66, 9, 84, 9, 65, 9, 82>>,    \* B T A, checksum R: valid, 4 fields
      <<65, 9, 9, 66, 9, 62>>,        \* A, empty timestamp, B, checksum >: valid
      <<65, 9, 66, 9, 53, 13, 10>>,   \* A B, checksum 5, CR LF: valid, 3 fields
      <<65, 9, 67, 9, 54>>,           \* A C, checksum 6: valid, 3 fields
      <<65, 9, 84, 9, 66, 9, 88>>,    \* A T B, checksum X: wrong, 4 fields
      <<65, 9, 66, 9, 88>>,           \* A B, checksum X: wrong, 3 fields
      <<65, 9, 66>>,                  \* 2 fields
      <<>>,                           \* zero-length read
      <<193, 9, 66, 9, 53>>,          \* non-ASCII tag, matching checksum
      <<65, 9, 66, 9>>,               \* empty checksum field
      <<65, 32, 66, 32, 67>> }        \* a historic line

HistoricLines ==
    { <<65, 32, 66, 32, 67, 13, 10>>, \* A B, checksum C, CR LF: valid
      <<65, 32, 80, 32, 81>>,         \* A P, checksum Q: valid
      <<80, 32, 80, 32, 32>>,         \* P P, checksum is the separator: 4 fields
      <<65, 32, 66, 32, 88>>,         \* A B, checksum X: wrong
      <<65, 32, 66, 32, 32>>,         \* A B, separator as checksum: wrong, 4 fields
      <<65, 32, 66>>,                 \* 2 fields
      <<>>,                           \* zero-length read
      <<193, 32, 66, 32, 67>>,        \* non-ASCII tag, matching checksum
      <<65, 32, 66, 32, 67, 67>>,     \* two-byte checksum field
      <<65, 9, 66, 9, 53>> }          \* a standard line

SessionLines(std) == IF std THEN StandardLines ELSE HistoricLines

\* every line of at most MaxLineLen bytes over Alphabet: both separators, a
\* line terminator, a non-ASCII byte and printable bytes that are checksums
Alphabet == {9, 32, 10, 193, 80, 59, 64, 50}

AllLines == UNION {[1..n -> Alphabet] : n \in 0..MaxLineLen}

----------------------------------------------------------------------------
(* The task read_serial() and the callback stop_serial_read() *)

EmptyDict == [k \in {} |-> None]

\* no line was built
NothingSent == [built |-> FALSE, tag |-> <<>>, timestamp |-> None, value |-> <<>>]

\* where the task suspends next, from the top of `while True`
LoopTop(r, w) ==
    IF r = "None" THEN "opening"       \* await self.open_serial()
    ELSE IF w = "None" THEN "exited"   \* break
    ELSE "reading"                     \* await self._reader.readline()

\* __init__ that leaves the first-line flag unarmed
Init_first_line_unarmed ==
    /\ std_mode \in BOOLEAN
    /\ reader = "None"
    /\ writer = "None"
    /\ first_line = FALSE
    /\ values = EmptyDict
    /\ pc = "start"
    /\ exc = ""
    /\ log = <<>>
    /\ stoppedOpen = FALSE
    /\ stoppedDisc = FALSE
    /\ sinceReadError = "none"
    /\ sstate = "Disconnected"
    /\ nconn = 0
    /\ closes = 0
    /\ stops = 0
    /\ sent = NothingSent

Init ==
    /\ std_mode \in BOOLEAN
    /\ reader = "None"
    /\ writer = "None"
    /\ first_line = TRUE
    /\ values = EmptyDict
    /\ pc = "start"
    /\ exc = ""
    /\ log = <<>>
    /\ stoppedOpen = FALSE
    /\ stoppedDisc = FALSE
    /\ sinceReadError = "none"
    /\ sstate = "Disconnected"
    /\ nconn = 0
    /\ closes = 0
    /\ stops = 0
    /\ sent = NothingSent

\* _reset_state that leaves self._values as it is
reset_state_keeps_values ==
    /\ reader' = "None"
    /\ writer' = "None"
    /\ first_line' = TRUE
    /\ values' = values
    /\ log' = <<>>
    /\ sstate' = "Disconnected"
    /\ pc' = "sleeping"

\* _reset_state that leaves self._first_line as it is
reset_state_keeps_first_line ==
    /\ reader' = "None"
    /\ writer' = "None"
    /\ first_line' = first_line
    /\ values' = EmptyDict
    /\ log' = <<>>
    /\ sstate' = "Disconnected"
    /\ pc' = "sleeping"

\* _reset_state that leaves self._reader as it is
reset_state_keeps_reader ==
    /\ reader' = reader
    /\ writer' = "None"
    /\ first_line' = TRUE
    /\ values' = EmptyDict
    /\ log' = <<>>
    /\ sstate' = "Disconnected"
    /\ pc' = "sleeping"

\* _reset_state, up to its await asyncio.sleep(5)
reset_state ==
    /\ reader' = "None"
    /\ writer' = "None"
    /\ first_line' = TRUE
    /\ values' = EmptyDict
    /\ log' = <<>>
    /\ sstate' = "Disconnected"
    /\ pc' = "sleeping"

\* the task created by async_setup starts running
Start ==
    /\ pc = "start"
    /\ pc' = LoopTop(reader, writer)
    /\ UNCHANGED <<std_mode, reader, writer, first_line, values, exc, log,
                   stoppedOpen, stoppedDisc, sinceReadError, sstate, nconn,
                   closes, stops, sent>>

\* open_serial: open_serial_connection returns
OpenOk ==
    /\ pc = "opening"
    /\ reader' = "open"
    /\ writer' = "open"
    /\ log' = <<>>
    /\ pc' = LoopTop(reader', writer')
    /\ sstate' = "AwaitingFirstLine"
    /\ sinceReadError' = IF sinceReadError = "down" THEN "awaiting" ELSE sinceReadError
    /\ nconn' = IF nconn < MaxConn THEN nconn + 1 ELSE nconn
    /\ closes' = 0
    /\ stops' = 0
    /\ UNCHANGED <<std_mode, first_line, values, exc, stoppedOpen, stoppedDisc, sent>>

\* open_serial: open_serial_connection raises SerialException
OpenFail ==
    /\ pc = "opening"
    /\ reset_state
    /\ closes' = 0
    /\ stops' = 0
    /\ UNCHANGED <<std_mode, exc, stoppedOpen, stoppedDisc, sinceReadError, nconn, sent>>

\* _reset_state: asyncio.sleep(5) returns, back to the top of the loop
SleepDone ==
    /\ pc = "sleeping"
    /\ pc' = LoopTop(reader, writer)
    /\ UNCHANGED <<std_mode, reader, writer, first_line, values, exc, log,
                   stoppedOpen, stoppedDisc, sinceReadError, sstate, nconn,
                   closes, stops, sent>>

\* readline_returns without the test of self._writer at line 130
readline_returns_always_parses(line) ==
    /\ pc = "reading"
    /\ Len(log) < MaxLog
    /\ LET r == parse_line(std_mode, first_line, values, line)
       IN  /\ first_line' = r.first_line
           /\ values' = r.values
           /\ log' = Append(log, [line |-> line, out |-> r.out])
           /\ IF r.out.kind = "raised"
              THEN pc' = "crashed" /\ exc' = r.out.exc.type
              ELSE pc' = LoopTop(reader, writer) /\ exc' = exc
    /\ sstate' = IF writer # "None" THEN "Connected" ELSE sstate
    /\ sinceReadError' = "none"
    /\ UNCHANGED <<std_mode, reader, writer, stoppedOpen, stoppedDisc, nconn,
                   closes, stops>>

\* read_serial: readline() returns line (lines 122 and 128-131, then the
\* top of the loop)
readline_returns(line) ==
    /\ pc = "reading"
    /\ IF writer # "None"
       THEN /\ Len(log) < MaxLog
            /\ LET r == parse_line(std_mode, first_line, values, line)
               IN  /\ first_line' = r.first_line
                   /\ values' = r.values
                   /\ log' = Append(log, [line |-> line, out |-> r.out])
                   /\ IF r.out.kind = "raised"
                      THEN pc' = "crashed" /\ exc' = r.out.exc.type
                      ELSE pc' = LoopTop(reader, writer) /\ exc' = exc
            /\ sstate' = "Connected"
            /\ sinceReadError' = "none"
       ELSE /\ pc' = LoopTop(reader, writer)
            /\ UNCHANGED <<first_line, values, log, exc, sinceReadError, sstate>>
    /\ UNCHANGED <<std_mode, reader, writer, stoppedOpen, stoppedDisc, nconn,
                   closes, stops>>

\* read_serial: readline() returns line
ReadLine(line) == readline_returns(line) /\ UNCHANGED sent

\* read_serial: readline() raises SerialException
ReadFail ==
    /\ pc = "reading"
    /\ reset_state
    /\ sinceReadError' = "down"
    /\ closes' = 0
    /\ stops' = 0
    /\ UNCHANGED <<std_mode, exc, stoppedOpen, stoppedDisc, nconn, sent>>

\* stop_serial_read that tests self._reader in place of self._writer
Stop_checks_reader ==
    /\ IF reader # "None"
       THEN /\ closes' = closes + 1
            /\ writer' = "None"
            /\ stoppedOpen' = TRUE
            /\ sstate' = "Stopped"
       ELSE UNCHANGED <<writer, closes, stoppedOpen, sstate>>
    /\ stoppedDisc' = (stoppedDisc \/ reader = "None")
    /\ stops' = IF stops < MaxStops THEN stops + 1 ELSE stops
    /\ UNCHANGED <<std_mode, reader, first_line, values, pc, exc, log,
                   sinceReadError, nconn, sent>>

\* stop_serial_read, a callback of the event loop
Stop ==
    /\ IF writer # "None"
       THEN /\ closes' = closes + 1        \* self._writer.close()
            /\ writer' = "None"
            /\ stoppedOpen' = TRUE
            /\ sstate' = "Stopped"
       ELSE UNCHANGED <<writer, closes, stoppedOpen, sstate>>
    /\ stoppedDisc' = (stoppedDisc \/ reader = "None")
    /\ stops' = IF stops < MaxStops THEN stops + 1 ELSE stops
    /\ UNCHANGED <<std_mode, reader, first_line, values, pc, exc, log,
                   sinceReadError, nconn, sent>>

\* read_serial: readline() returns one of the lines of the mode
Read == \E line \in SessionLines(std_mode) : ReadLine(line)

\* the steps of the task
Worker ==
    \/ Start
    \/ OpenOk
    \/ OpenFail
    \/ SleepDone
    \/ Read
    \/ ReadFail

Next == Worker \/ Stop

Spec == Init /\ [][Next]_vars

\* every pending open, read and sleep completes
FairSpec == Spec /\ WF_vars(Worker)

----------------------------------------------------------------------------
(* The parser alone: one line of AllLines handed to parse_line of a        *)
(* connection that has discarded its first line                            *)

\* the tables the line may find: empty, or P -> (@, None), which the lines
\* P <sep> @ <sep> <checksum> store in either mode
InitialTables ==
    {EmptyDict, SetItem(EmptyDict, Str(<<80>>), [value |-> Str(<<64>>), timestamp |-> None])}

ParseInit ==
    /\ std_mode \in BOOLEAN
    /\ reader = "open"
    /\ writer = "open"
    /\ first_line = FALSE
    /\ values \in InitialTables
    /\ pc = "reading"
    /\ exc = ""
    /\ log = <<>>
    /\ stoppedOpen = FALSE
    /\ stoppedDisc = FALSE
    /\ sinceReadError = "none"
    /\ sstate = "Connected"
    /\ nconn = 1
    /\ closes = 0
    /\ stops = 0
    /\ sent = NothingSent

\* readline() returns any line of AllLines, once
ParseNext == Len(log) = 0 /\ \E line \in AllLines : ReadLine(line)

ParseSpec == ParseInit /\ [][ParseNext]_vars

----------------------------------------------------------------------------
(* What the claims say of a line, read off the line itself *)

Sep(std) ==
    IF std THEN MODE_STANDARD_FIELD_SEPARATOR ELSE MODE_HISTORIC_FIELD_SEPARATOR

Stripped(line) == rstrip(rstrip(line, LINE_END), FRAME_END)

FieldsOf(line, std) == split(Stripped(line), Sep(std))

CountAllowed(line, std) == Len(FieldsOf(line, std)) \in {3, 4}

HasTimestamp(line, std) == std /\ Len(FieldsOf(line, std)) = 4

TagOf(line, std) == FieldsOf(line, std)[1]

TimestampOf(line, std) == FieldsOf(line, std)[2]

ValueOf(line, std) ==
    IF HasTimestamp(line, std) THEN FieldsOf(line, std)[3] ELSE FieldsOf(line, std)[2]

\* the checksum field: the last field, but the separator itself for a
\* historic line of 4 fields
ChecksumOf(line, std) ==
    LET f == FieldsOf(line, std)
    IN  IF ~std /\ Len(f) = 4 THEN <<Sep(std)>> ELSE f[Len(f)]

\* the frame: in standard mode all that precedes the checksum field, its
\* separator included; in historic mode tag, separator, value
FrameOf(line, std) ==
    IF std
    THEN SubSeq(Stripped(line), 1,
                Len(Stripped(line)) - Len(ChecksumOf(line, std)))
    ELSE TagOf(line, std) \o <<Sep(std)>> \o ValueOf(line, std)

ComputedOf(line, std) == (SumBytes(FrameOf(line, std)) % 64) + 32

ChecksumMatches(line, std) ==
    /\ CountAllowed(line, std)
    /\ Len(ChecksumOf(line, std)) = 1
    /\ ChecksumOf(line, std)[1] = ComputedOf(line, std)

ChecksumMismatches(line, std) ==
    /\ CountAllowed(line, std)
    /\ Len(ChecksumOf(line, std)) = 1
    /\ ChecksumOf(line, std)[1] # ComputedOf(line, std)

AsciiFields(line, std) ==
    /\ IsAscii(TagOf(line, std))
    /\ IsAscii(ValueOf(line, std))
    /\ HasTimestamp(line, std) => IsAscii(TimestampOf(line, std))

\* an accepted line: it yields a decoded field
Accepted(line, std) == ChecksumMatches(line, std) /\ AsciiFields(line, std)

\* the tags a consumer may ask for: those of the lines, and one never sent
Tags ==
    {Str(TagOf(l, TRUE)) : l \in StandardLines}
        \cup {Str(TagOf(l, FALSE)) : l \in HistoricLines}
        \cup {Str(<<90>>)}

\* the task goes (back) to open_serial
OpenAttempt == pc # "opening" /\ pc' = "opening"

\* this step hands a line to parse_line past the first-line skip
ParsedStep == Len(log) >= 1 /\ Len(log') = Len(log) + 1

NewLine == log'[Len(log')]

----------------------------------------------------------------------------
(* C1: once stop_serial_read() has closed an open connection, the task     *)
(* never goes to open the transport again, however the pending read ends.  *)
C1_NoReopenAfterStop == [][stoppedOpen => ~OpenAttempt]_vars

(* C2: once stop_serial_read() has run while the session was Disconnected  *)
(* (no reader: before the first open, open pending, backoff), the task     *)
(* makes no further attempt to open the transport.                         *)
C2_NoOpenAfterStopWhileDisconnected == [][stoppedDisc => ~OpenAttempt]_vars

(* C3: after stop_serial_read() in any session state, if every pending     *)
(* open, read and sleep completes, read_serial() eventually ends; and it   *)
(* leaves its loop by the break only after a stop.  The task ending by an  *)
(* exception is counted as ending.                                         *)
C3_StopLeadsToExit ==
    /\ [](pc = "exited" => stoppedOpen)
    /\ (stoppedOpen \/ stoppedDisc) ~> (pc \in {"exited", "crashed"})

(* C4: a parsed line with an allowed field count and a one-byte checksum   *)
(* that differs from the computed one is reported as an InvalidChecksum    *)
(* carrying tag, value, s1, truncated, computed and expected, and dropped: *)
(* the table is unchanged, the session still connected, the task reading.  *)
C4_InvalidChecksumReportedAndDropped ==
    [][(ParsedStep /\ ChecksumMismatches(NewLine.line, std_mode)) =>
          /\ NewLine.out.kind = "checksum"
          /\ NewLine.out.exc.type = "InvalidChecksum"
          /\ NewLine.out.exc.args[1] = Str(TagOf(NewLine.line, std_mode))
          /\ NewLine.out.exc.args[3] = Str(ValueOf(NewLine.line, std_mode))
          /\ NewLine.out.exc.args[4] = SumBytes(FrameOf(NewLine.line, std_mode))
          /\ NewLine.out.exc.args[5] = SumBytes(FrameOf(NewLine.line, std_mode)) % 64
          /\ NewLine.out.exc.args[6] = ComputedOf(NewLine.line, std_mode)
          /\ NewLine.out.exc.args[7] = ChecksumOf(NewLine.line, std_mode)
          /\ values' = values
          /\ is_connected'
          /\ sstate' = "Connected"
          /\ pc' = "reading"]_vars

C6_ExactlyFirstLineSkipped ==
    /\ \A i \in DOMAIN log : (log[i].out.kind = "skipped") <=> (i = 1)
    /\ Len(log) <= 1 => values = EmptyDict
    /\ (is_connected /\ Len(log) = 0) => first_line

C6_Witness ==
    /\ nconn = 2
    /\ Len(log) >= 2
    /\ Accepted(log[1].line, std_mode)
    /\ log[1].out.kind = "skipped"
    /\ log[2].out.kind = "stored"

(* C7: while Connected, get_values(tag) is the value and timestamp of the  *)
(* last accepted line with that tag since the connection was opened, and   *)
(* (None, None) without one; the timestamp is the second field of a        *)
(* standard line of 4 fields and None otherwise.                           *)
LastAccepted(tag) ==
    {i \in 2..Len(log) :
        /\ Accepted(log[i].line, std_mode)
        /\ Str(TagOf(log[i].line, std_mode)) = tag
        /\ \A j \in (i + 1)..Len(log) :
              ~(Accepted(log[j].line, std_mode)
                  /\ Str(TagOf(log[j].line, std_mode)) = tag)}

C7_CurrentValueIsLastAccepted ==
    (sstate = "Connected") =>
        \A tag \in Tags :
            IF LastAccepted(tag) = {}
            THEN get_values(tag) = NonePair
            ELSE \A i \in LastAccepted(tag) :
                    LET line == log[i].line
                        got == get_values(tag)
                    IN  /\ got[1] = Str(ValueOf(line, std_mode))
                        /\ IF HasTimestamp(line, std_mode)
                           THEN /\ got[2] # None
                                /\ got[2].v = TimestampOf(line, std_mode)
                           ELSE got[2] = None

C7_Witness ==
    /\ sstate = "Connected"
    /\ Len(log) = 3
    /\ log[2].out.kind = "stored"
    /\ log[3].out.kind = "stored"
    /\ TagOf(log[2].line, std_mode) = TagOf(log[3].line, std_mode)
    /\ HasTimestamp(log[2].line, std_mode)
    /\ ~HasTimestamp(log[3].line, std_mode)

(* C8: whenever the session is not connected, get_values(tag) is           *)
(* (None, None) for every tag.                                             *)
C8_NoValuesWhenNotConnected ==
    ~is_connected => \A tag \in Tags : get_values(tag) = NonePair

C10_AcceptsIffCountAndChecksum ==
    \A i \in DOMAIN log :
        (log[i].out.kind # "skipped") =>
            LET line == log[i].line
            IN  /\ log[i].out.valid <=> ChecksumMatches(line, std_mode)
                /\ (CountAllowed(line, std_mode) /\ AsciiFields(line, std_mode)) =>
                      ((log[i].out.kind = "stored") <=> ChecksumMatches(line, std_mode))
                /\ ~CountAllowed(line, std_mode) <=> (log[i].out.kind = "fieldcount")

C10_Witness ==
    /\ Len(log) = 1
    /\ log[1].out.kind = "stored"
    /\ ~std_mode
    /\ Len(FieldsOf(log[1].line, std_mode)) = 4

----------------------------------------------------------------------------
(* The round trip: a line built from a tag, a value and (standard mode) an *)
(* optional timestamp, with the checksum computed for its frame, handed to *)
(* parse_line of a connection that has discarded its first line            *)

\* bytes a field is made of: ASCII, not the separator of the mode, not a
\* line or frame terminator
FieldBytes(std) == {48, 65, 80} \cup {Sep(~std)}

FieldsFor(std) == UNION {[1..n -> FieldBytes(std)] : n \in 0..MaxFieldLen}

TimestampsFor(std) ==
    IF std THEN {None} \cup {Bytes(f) : f \in FieldsFor(std)} ELSE {None}

\* the frame that is checksummed, as the protocol defines it
BuiltFrame(std, tag, timestamp, value) ==
    IF ~std THEN tag \o <<Sep(std)>> \o value
    ELSE IF timestamp = None THEN tag \o <<Sep(std)>> \o value \o <<Sep(std)>>
    ELSE tag \o <<Sep(std)>> \o timestamp.v \o <<Sep(std)>> \o value \o <<Sep(std)>>

BuiltChecksum(frame) == (SumBytes(frame) % 64) + 32

\* the line on the wire: the frame, then (historic mode) a separator, then
\* the checksum
BuiltLine(std, tag, timestamp, value) ==
    LET frame == BuiltFrame(std, tag, timestamp, value)
    IN  IF std THEN frame \o <<BuiltChecksum(frame)>>
        ELSE frame \o <<Sep(std), BuiltChecksum(frame)>>

RoundTripInit == ParseInit

\* readline() returns the line built from some tag, timestamp and value, once
RoundTripNext ==
    /\ Len(log) = 0
    /\ \E tag \in FieldsFor(std_mode), value \in FieldsFor(std_mode),
          timestamp \in TimestampsFor(std_mode) :
          /\ readline_returns(BuiltLine(std_mode, tag, timestamp, value))
          /\ sent' = [built |-> TRUE, tag |-> tag, timestamp |-> timestamp,
                      value |-> value]

RoundTripSpec == RoundTripInit /\ [][RoundTripNext]_vars

(* C11: the line built from a tag, a value and an optional timestamp (ASCII, *)
(* free of the separator and of terminators) with the checksum of its frame  *)
(* is accepted in the same mode and stores exactly that tag, value and       *)
(* timestamp, also when the historic checksum is the separator byte.         *)
C11_RoundTripStored ==
    sent.built =>
        /\ log[1].out.kind = "stored"
        /\ pc = "reading"
        /\ get_values(Str(sent.tag))[1] = Str(sent.value)
        /\ IF sent.timestamp = None
           THEN get_values(Str(sent.tag))[2] = None
           ELSE /\ get_values(Str(sent.tag))[2] # None
                /\ get_values(Str(sent.tag))[2].v = sent.timestamp.v
        /\ \A tag \in DOMAIN values :
              tag = Str(sent.tag) \/ (tag = Str(<<80>>) /\ values[tag].value = Str(<<64>>))

C11_Witness ==
    /\ sent.built
    /\ ~std_mode
    /\ Len(log) = 1
    /\ BuiltChecksum(BuiltFrame(std_mode, sent.tag, sent.timestamp, sent.value))
          = MODE_HISTORIC_FIELD_SEPARATOR
    /\ log[1].out.kind = "stored"
    /\ sent.tag # <<>>

----------------------------------------------------------------------------
(* C12: a historic line of exactly 4 fields is validated with the          *)
(* separator byte as its checksum, not its fourth field: it is accepted    *)
(* iff the checksum of tag, separator, value is the separator byte, and    *)
(* (its fields being ASCII) then stored as (value, None) under its tag.    *)
C12_HistoricFourFields ==
    \A i \in DOMAIN log :
        LET line == log[i].line
            f == FieldsOf(line, FALSE)
        IN  (log[i].out.kind # "skipped" /\ ~std_mode /\ Len(f) = 4) =>
                LET ok == (SumBytes(f[1] \o <<MODE_HISTORIC_FIELD_SEPARATOR>> \o f[2]) % 64)
                              + 32 = MODE_HISTORIC_FIELD_SEPARATOR
                IN  /\ log[i].out.valid <=> ok
                    /\ (IsAscii(f[1]) /\ IsAscii(f[2])) => (log[i].out.kind = "stored" <=> ok)
                    /\ (log[i].out.kind = "stored" /\ i = Len(log)) =>
                          get_values(Str(f[1])) = <<Str(f[2]), None>>

C12_Witness ==
    /\ ~std_mode
    /\ Len(log) = 1
    /\ Len(FieldsOf(log[1].line, FALSE)) = 4
    /\ log[1].out.kind = "stored"
    /\ get_values(Str(<<80>>)) = <<Str(<<80>>), None>>

(* C13: a parsed line whose field count is not allowed for the mode is     *)
(* dropped: the table, both handles and the first-line flag are unchanged, *)
(* the session stays Connected and the task awaits the next line.          *)
C13_BadFieldCountDropped ==
    [][(Len(log') = Len(log) + 1 /\ ~first_line
            /\ ~CountAllowed(NewLine.line, std_mode)) =>
          /\ NewLine.out.kind = "fieldcount"
          /\ values' = values
          /\ reader' = reader
          /\ writer' = writer
          /\ first_line' = first_line
          /\ is_connected'
          /\ sstate' = "Connected"
          /\ pc' = "reading"]_vars

C13_Witness ==
    /\ std_mode
    /\ Len(log) = 1
    /\ Len(FieldsOf(log[1].line, TRUE)) = 2
    /\ log[1].out.kind = "fieldcount"
    /\ values # EmptyDict
    /\ pc = "reading"

(* C14: a parsed line with an allowed field count and a matching checksum  *)
(* that has a byte >= 0x80 in its tag, value or timestamp is dropped: the  *)
(* table is unchanged, the session stays Connected and the task awaits the *)
(* next line.                                                              *)
C14_NonAsciiDropped ==
    [][(ParsedStep /\ ChecksumMatches(NewLine.line, std_mode)
            /\ ~AsciiFields(NewLine.line, std_mode)) =>
          /\ values' = values
          /\ is_connected'
          /\ sstate' = "Connected"
          /\ pc' = "reading"]_vars

(* C19: a parsed line with an allowed field count whose checksum field is  *)
(* not exactly one byte is dropped: the table is unchanged, the session    *)
(* stays Connected and the task awaits the next line.                      *)
C19_BadChecksumLengthDropped ==
    [][(ParsedStep /\ CountAllowed(NewLine.line, std_mode)
            /\ Len(ChecksumOf(NewLine.line, std_mode)) # 1) =>
          /\ values' = values
          /\ is_connected'
          /\ sstate' = "Connected"
          /\ pc' = "reading"]_vars

(* C20: an empty line read on an open connection changes nothing: the      *)
(* session state (the first-line flag with it), the table and both handles *)
(* are as before and the task awaits the next line.                        *)
C20_EmptyReadChangesNothing ==
    [][(Len(log') = Len(log) + 1 /\ NewLine.line = <<>>) =>
          /\ sstate' = sstate
          /\ first_line' = first_line
          /\ values' = values
          /\ reader' = reader
          /\ writer' = writer
          /\ pc' = "reading"]_vars

(* C15: a transport failure is never fatal: while stop_serial_read() has   *)
(* not been called, the task that waits after a failed open or read has    *)
(* dropped both handles, cleared the table and armed the first-line flag,  *)
(* and it goes on to open the transport again, failure after failure.      *)
C15_TransportFailureRetried ==
    /\ []((pc = "sleeping" /\ stops = 0) =>
            /\ reader = "None"
            /\ writer = "None"
            /\ values = EmptyDict
            /\ first_line
            /\ exc = "")
    /\ ((pc = "sleeping" /\ stops = 0) ~> (pc = "opening"))

C15_Witness ==
    /\ pc = "opening"
    /\ sinceReadError = "down"
    /\ nconn = MaxConn
    /\ stops = 0
    /\ ~stoppedOpen
    /\ ~stoppedDisc

(* C16: stop_serial_read() is idempotent: it leaves no writer, a call that *)
(* finds no writer changes nothing and raises nothing, it can be called in *)
(* every state, and the transport of a connection is closed at most once.  *)
C16_StopIdempotent ==
    /\ [](closes <= 1 /\ ENABLED Stop)
    /\ [][Stop =>
            /\ writer' = "None"
            /\ exc' = exc
            /\ pc' = pc
            /\ writer = "None" =>
                 UNCHANGED <<reader, writer, first_line, values, closes, sstate>>]_vars

C16_Witness ==
    /\ stops = 2
    /\ closes = 1
    /\ reader = "open"
    /\ writer = "None"
    /\ sstate = "Stopped"

(* C17: whenever the session is Disconnected the table is empty and the    *)
(* first-line flag is armed, and so are they when the transport has just   *)
(* been opened, the first time included.                                   *)
C17_EmptyAndArmedAtOpen ==
    sstate \in {"Disconnected", "AwaitingFirstLine"} =>
        (values = EmptyDict /\ first_line)

C17_Witness ==
    /\ sstate = "AwaitingFirstLine"
    /\ nconn = MaxConn
    /\ sinceReadError = "awaiting"
    /\ first_line
    /\ values = EmptyDict

(* C18: the line returned by the read that was pending when                *)
(* stop_serial_read() closed the transport is not handed to parse_line:    *)
(* the table and the first-line flag are unchanged and the loop exits.     *)
C18_InFlightLineDiscarded ==
    [][(pc = "reading" /\ writer = "None" /\ pc' \notin {"reading", "sleeping"}) =>
          /\ log' = log
          /\ values' = values
          /\ first_line' = first_line
          /\ pc' = "exited"]_vars

C18_Witness ==
    /\ pc = "exited"
    /\ sstate = "Stopped"
    /\ closes = 1
    /\ Len(log) = 2
    /\ values # EmptyDict

====
